---- MODULE Spec2Model ----
(***************************************************************************)
(* Model of scripts/qemucommand.py: the QemuCommand launch-plan builder,   *)
(* its two command-line assemblers, and the helpers find_local_port and    *)
(* random_mac.  The file system, the module-level EXTENSIONS table and the *)
(* TCP port space are the state that outlives one construction.            *)
(***************************************************************************)
EXTENDS Integers, Sequences, FiniteSets, TLC

VARIABLES
    fs,          \* files on disk: absolute path -> content
    EXTENSIONS,  \* the module-level machine -> extension table
    res,         \* outcome of the latest QemuCommand(args): error or object
    out,         \* latest list returned by command_line()/img_command_line()
    first,       \* the first overlay construction that copied the sidecars
    busy,        \* TCP ports that cannot be bound at the moment
    probe        \* latest call of find_local_port made on its own

vars == <<fs, EXTENSIONS, res, out, first, busy, probe>>

(***************************************************************************)
(* Python values                                                           *)
(***************************************************************************)
None == "<None>"
Absent == "<absent>"

\* truth value of an optional string (None and '' are falsy)
Truthy(v) == v # None /\ v # ""

\* str(v) as an f-string interpolates it
Format(v) == IF v = None THEN "None" ELSE v

UpperCase == "ABCDEFGHIJKLMNOPQRSTUVWXYZ"
LowerCase == "abcdefghijklmnopqrstuvwxyz"

LowerMap == [c \in {SubSeq(UpperCase, i, i) : i \in 1..Len(UpperCase)} |->
               LET i == CHOOSE j \in 1..Len(UpperCase) : SubSeq(UpperCase, j, j) = c
               IN SubSeq(LowerCase, i, i)]

LowerChar(c) == IF c \in DOMAIN LowerMap THEN LowerMap[c] ELSE c

RECURSIVE lower(_)
lower(s) ==
    IF Len(s) = 0 THEN ""
    ELSE LowerChar(SubSeq(s, 1, 1)) \o lower(SubSeq(s, 2, Len(s)))

(***************************************************************************)
(* os.path on a file system without symbolic links                         *)
(***************************************************************************)
Cwd == "/work"
Dirs == {"/work", "/work/deploy"}

isabs(p) == Len(p) > 0 /\ SubSeq(p, 1, 1) = "/"

join2(a, b) ==
    IF isabs(b) THEN b
    ELSE IF Len(a) = 0 \/ SubSeq(a, Len(a), Len(a)) = "/" THEN a \o b
    ELSE a \o "/" \o b

join(a, b, c) == join2(join2(a, b), c)

abspath(p) == IF isabs(p) THEN p ELSE join2(Cwd, p)

realpath(p) == abspath(p)

exists(f, p) == Len(p) > 0 /\ (abspath(p) \in DOMAIN f \/ abspath(p) \in Dirs)

isdir(p) == Len(p) > 0 /\ abspath(p) \in Dirs

StartsWith(s, pre) == Len(s) >= Len(pre) /\ SubSeq(s, 1, Len(pre)) = pre

Machines == {"qemux86-64", "intel-corei7-64", "raspberrypi3"}

listdir(f, d) ==
    {m \in Machines : LET entry == join2(abspath(d), m) \o "/"
                      IN \E p \in DOMAIN f : StartsWith(p, entry)}

\* what a file holds, None when there is no such file
content(f, p) == IF abspath(p) \in DOMAIN f THEN f[abspath(p)] ELSE None

copyfile(f, src, dst) ==
    [p \in DOMAIN f \cup {abspath(dst)} |->
        IF p = abspath(dst) THEN f[abspath(src)] ELSE f[p]]

(***************************************************************************)
(* find_local_port: probe start_port .. start_port+9, one socket per port. *)
(* occupied is the set of ports whose bind fails.  The result records the  *)
(* port returned (or the exception), the ports probed in order, the       *)
(* sockets still open when the function is left, and the port such a      *)
(* socket keeps bound.                                                     *)
(***************************************************************************)
PortWindow == 10

\* finally: s.close()
keep_socket(open, s) == open

close_socket(open, s) == open \ {s}

RECURSIVE probe_from(_, _, _, _, _)
probe_from(port, stop, occupied, probed, open) ==
    IF port >= stop
    THEN [port |-> -1, err |-> "Exception", probed |-> probed,
          open |-> open, held |-> {}]
    ELSE LET after == close_socket(open \cup {port}, port)
         IN IF port \notin occupied          \* s.bind(('', port)) succeeds
            THEN [port |-> port, err |-> None, probed |-> Append(probed, port),
                  open |-> after, held |-> after \cap {port}]
            ELSE probe_from(port + 1, stop, occupied, Append(probed, port), after)

find_local_port(start_port, occupied) ==
    probe_from(start_port, start_port + PortWindow, occupied, <<>>, {})

(***************************************************************************)
(* random_mac: 'ca:fe' and four octets of two random hex digits each.      *)
(* draws gives the eight outcomes of random.choice as positions in         *)
(* hex_digits; the model draws among the first NHex digits.                *)
(***************************************************************************)
hex_digits == "0123456789abcdef"
MacOctets == 4
NHex == 2

RandomDraws == [1..(2 * MacOctets) -> 1..NHex]
SameDraws == {[i \in 1..(2 * MacOctets) |-> k] : k \in 1..NHex}

RECURSIVE join_colon(_)
join_colon(parts) ==
    IF Len(parts) = 0 THEN ""
    ELSE IF Len(parts) = 1 THEN parts[1]
    ELSE parts[1] \o ":" \o join_colon(Tail(parts))

random_mac(draws) ==
    LET digit(i) == SubSeq(hex_digits, draws[i], draws[i])
        tail == join_colon([k \in 1..MacOctets |-> digit(2 * k - 1) \o digit(2 * k)])
    IN "ca:fe:" \o tail

(***************************************************************************)
(* QemuCommand.__init__                                                    *)
(***************************************************************************)
DefaultExtensions == [m \in {"intel-corei7-64", "qemux86-64"} |->
                        IF m = "intel-corei7-64" THEN "wic" ELSE "ota-ext4"]

\* EXTENSIONS.get(machine, 'wic')
extension_of(ext, machine) == IF machine \in DOMAIN ext THEN ext[machine] ELSE "wic"

SerialStart == 8990
SshStart == 2222

NoObj == [enable_u_boot |-> FALSE, dry_run |-> FALSE, overlay |-> None,
          host_fwd |-> None, kernel |-> None, drive_interface |-> None,
          machine |-> None, bios |-> Absent, image |-> None,
          mac_address |-> None, serial_port |-> -1, ssh_port |-> -1,
          mem |-> None, kvm |-> FALSE, gui |-> FALSE, gdb |-> FALSE,
          pcap |-> None, secondary_network |-> FALSE]

\* an exception leaving __init__ at the given source line; f and ext are the
\* file system and the extension table as the construction leaves them
Raised(kind, line, f, ext, machine, base, copies, printed) ==
    [err |-> kind, line |-> line, fs |-> f, ext |-> ext, obj |-> NoObj,
     machine |-> machine, base |-> base, copies |-> copies, printed |-> printed, held |-> {}]

\* lines 49-50
enable_u_boot_of(args) ==
    IF args.uboot_enable # Absent
    THEN lower(args.uboot_enable) \in {"yes", "true", "1"}
    ELSE TRUE

\* lines 53-54: overlay is refused when U-Boot is disabled
overlay_refused_with_uboot(enable, overlay) == enable /\ Truthy(overlay)

overlay_refused(enable, overlay) == ~enable /\ Truthy(overlay)

\* lines 57-59: the table entry of qemux86-64 is overwritten in place
set_extensions(ext, enable) ==
    IF ~enable THEN [ext EXCEPT !["qemux86-64"] = "ext4"] ELSE ext

\* lines 61-74
resolve_machine(args, f) ==
    IF Truthy(args.machine) THEN [err |-> None, line |-> 0, machine |-> args.machine]
    ELSE IF ~isdir(args.dir) THEN [err |-> "ValueError", line |-> 65, machine |-> None]
    ELSE LET machines == listdir(f, args.dir)
         IN IF Cardinality(machines) = 1
            THEN [err |-> None, line |-> 0, machine |-> CHOOSE m \in machines : TRUE]
            ELSE [err |-> "ValueError", line |-> 72, machine |-> None]

\* lines 96-98 (and 126): `not exists(path) and (not dry_run or exists(overlay))`;
\* exists(None) raises TypeError
missing_unless_exempt(f, path, dry_run, overlay) ==
    IF exists(f, path) THEN "ok"
    ELSE IF ~dry_run THEN "ValueError"
    ELSE IF overlay = None THEN "TypeError"
    ELSE IF exists(f, overlay) THEN "ValueError"
    ELSE "ok"

\* lines 87-90 (and 115-118): the sidecar is copied when the overlay file does
\* not exist yet, the source exists and the sidecar does not exist yet
copy_even_if_present(f, overlay, src, dst) ==
    ~exists(f, overlay) /\ exists(f, src)

needs_copy(f, overlay, src, dst) ==
    ~exists(f, overlay) /\ exists(f, src) /\ ~exists(f, dst)

\* lines 78-102: bootloader or kernel
resolve_boot(args, enable, machine, f) ==
    LET plain == [err |-> None, line |-> 0, bios |-> Absent, kernel |-> None,
                  fs |-> f, copies |-> <<>>, printed |-> <<>>]
    IN IF args.efi THEN [plain EXCEPT !.bios = "OVMF.fd"]
       ELSE IF enable
       THEN LET uboot_path0 ==
                    IF Truthy(args.bootloader) THEN args.bootloader
                    ELSE abspath(join(args.dir, machine, "u-boot-qemux86-64.rom"))
                new_uboot_path == Format(args.overlay) \o ".u-boot.rom"
                src_missing == Truthy(args.overlay) /\ ~exists(f, args.overlay)
                                  /\ ~exists(f, uboot_path0)
                do_copy == Truthy(args.overlay)
                              /\ needs_copy(f, args.overlay, uboot_path0, new_uboot_path)
                f1 == IF do_copy /\ ~args.dry_run
                      THEN copyfile(f, uboot_path0, new_uboot_path) ELSE f
                copies == IF do_copy /\ ~args.dry_run
                          THEN <<<<uboot_path0, new_uboot_path>>>> ELSE <<>>
                printed == IF do_copy /\ args.dry_run
                           THEN <<"cp " \o uboot_path0 \o " " \o new_uboot_path>>
                           ELSE <<>>
                uboot_path == IF Truthy(args.overlay) THEN new_uboot_path ELSE uboot_path0
                check == missing_unless_exempt(f1, uboot_path, args.dry_run, args.overlay)
            IN IF src_missing
               THEN [plain EXCEPT !.err = "ValueError", !.line = 89]
               ELSE IF check # "ok"
               THEN [plain EXCEPT !.err = check,
                                  !.line = IF check = "TypeError" THEN 97 ELSE 99,
                                  !.fs = f1, !.copies = copies, !.printed = printed]
               ELSE [plain EXCEPT !.bios = uboot_path, !.fs = f1,
                                  !.copies = copies, !.printed = printed]
       ELSE [plain EXCEPT
                !.kernel = abspath(join(args.dir, machine, "bzImage-qemux86-64.bin"))]

\* lines 108-112: the base image
base_image(args, machine, f, ext) ==
    IF exists(f, args.imagename) THEN realpath(args.imagename)
    ELSE join(args.dir, machine,
              args.imagename \o "-" \o machine \o "." \o extension_of(ext, machine))

\* lines 113-127: the image the emulator uses
resolve_image(args, machine, f, ext) ==
    LET image == base_image(args, machine, f, ext)
        plain == [err |-> None, line |-> 0, image |-> None, base |-> image,
                  fs |-> f, copies |-> <<>>, printed |-> <<>>]
    IN IF Truthy(args.overlay)
       THEN LET new_image_path == args.overlay \o ".img"
                src_missing == ~exists(f, args.overlay) /\ ~exists(f, image)
                do_copy == needs_copy(f, args.overlay, image, new_image_path)
                f1 == IF do_copy /\ ~args.dry_run
                      THEN copyfile(f, image, new_image_path) ELSE f
                copies == IF do_copy /\ ~args.dry_run
                          THEN <<<<image, new_image_path>>>> ELSE <<>>
                printed == IF do_copy /\ args.dry_run
                           THEN <<"cp " \o image \o " " \o new_image_path>> ELSE <<>>
                check == missing_unless_exempt(f1, new_image_path, args.dry_run,
                                               args.overlay)
            IN IF src_missing
               THEN [plain EXCEPT !.err = "ValueError", !.line = 117]
               ELSE IF check # "ok"
               THEN [plain EXCEPT !.err = check,
                                  !.line = IF check = "TypeError" THEN 126 ELSE 127,
                                  !.fs = f1, !.copies = copies, !.printed = printed]
               ELSE [plain EXCEPT !.image = new_image_path, !.fs = f1,
                                  !.copies = copies, !.printed = printed]
       ELSE LET check == missing_unless_exempt(f, realpath(image), args.dry_run,
                                               args.overlay)
            IN IF check # "ok"
               THEN [plain EXCEPT !.err = check,
                                  !.line = IF check = "TypeError" THEN 126 ELSE 127]
               ELSE [plain EXCEPT !.image = realpath(image)]

\* lines 41-149.  env holds what the surroundings decide during the call: the
\* outcomes of random.choice (draws), the occupied ports (busy) and whether
\* the kvm-ok probe succeeds (kvm_ok).
QemuCommand_init(args, env, f, ext) ==
    LET enable == enable_u_boot_of(args)
    IN IF overlay_refused(enable, args.overlay)
       THEN Raised("EnvironmentError", 54, f, ext, None, None, <<>>, <<>>)
       ELSE
       LET ext1 == set_extensions(ext, enable)
           m == resolve_machine(args, f)
       IN IF m.err # None
          THEN Raised(m.err, m.line, f, ext1, None, None, <<>>, <<>>)
          ELSE
          LET b == resolve_boot(args, enable, m.machine, f)
          IN IF b.err # None
             THEN Raised(b.err, b.line, b.fs, ext1, m.machine, None, b.copies, b.printed)
             ELSE
             LET i == resolve_image(args, m.machine, b.fs, ext1)
                 copies == b.copies \o i.copies
                 printed == b.printed \o i.printed
             IN IF i.err # None
                THEN Raised(i.err, i.line, i.fs, ext1, m.machine, i.base, copies, printed)
                ELSE
                LET serial == find_local_port(SerialStart, env.busy)
                    ssh == find_local_port(SshStart, env.busy \cup serial.held)
                IN IF serial.err # None
                   THEN [Raised(serial.err, 28, i.fs, ext1, m.machine, i.base, copies, printed)
                            EXCEPT !.held = serial.held]
                   ELSE IF ssh.err # None
                   THEN [Raised(ssh.err, 28, i.fs, ext1, m.machine, i.base, copies, printed)
                            EXCEPT !.held = serial.held \cup ssh.held]
                   ELSE
                   [err |-> None, line |-> 0, fs |-> i.fs, ext |-> ext1,
                    machine |-> m.machine, base |-> i.base, copies |-> copies, printed |-> printed,
                    held |-> serial.held \cup ssh.held,
                    obj |->
                      [enable_u_boot |-> enable,
                       dry_run |-> args.dry_run,
                       overlay |-> args.overlay,
                       host_fwd |-> IF args.host_forward # Absent
                                    THEN args.host_forward ELSE None,
                       kernel |-> b.kernel,
                       drive_interface |-> IF ~enable THEN "virtio" ELSE "ide",
                       machine |-> m.machine,
                       bios |-> b.bios,
                       image |-> i.image,
                       mac_address |-> IF Truthy(args.mac) THEN args.mac
                                       ELSE random_mac(env.draws),
                       serial_port |-> serial.port,
                       ssh_port |-> ssh.port,
                       mem |-> IF Truthy(args.mem) THEN args.mem ELSE "1G",
                       kvm |-> IF args.kvm = None THEN env.kvm_ok
                               ELSE args.kvm = "True",
                       gui |-> ~args.no_gui,
                       gdb |-> args.gdb,
                       pcap |-> args.pcap,
                       secondary_network |-> args.secondary_network]]

(***************************************************************************)
(* QemuCommand.command_line and QemuCommand.img_command_line               *)
(***************************************************************************)
\* lines 161-164
boot_flag(o) == IF o.enable_u_boot THEN <<"-bios", o.bios>>
                ELSE <<"-kernel", o.kernel>>

\* lines 166-170
drive_always(o) ==
    <<"-drive", "file=" \o Format(o.image) \o ",if=" \o Format(o.drive_interface)
                  \o ",format=raw,snapshot=on">>

drive_clause(o) ==
    IF ~Truthy(o.overlay)
    THEN <<"-drive", "file=" \o Format(o.image) \o ",if=" \o Format(o.drive_interface)
                       \o ",format=raw,snapshot=on">>
    ELSE <<>>

\* lines 151-213; draws are the outcomes of random.choice in random_mac()
command_line(o, draws) ==
    LET netuser0 == "user,hostfwd=tcp:0.0.0.0:" \o ToString(o.ssh_port)
                       \o "-:22,restrict=off"
        netuser1 == IF o.gdb THEN netuser0 \o ",hostfwd=tcp:0.0.0.0:2159-:2159"
                    ELSE netuser0
        netuser == IF Truthy(o.host_fwd) THEN netuser1 \o ",hostfwd=" \o o.host_fwd
                   ELSE netuser1
    IN <<"qemu-system-x86_64">>
       \o boot_flag(o)
       \o drive_clause(o)
       \o <<"-serial", "tcp:127.0.0.1:" \o ToString(o.serial_port) \o ",server,nowait",
            "-m", o.mem,
            "-object", "rng-random,id=rng0,filename=/dev/urandom",
            "-device", "virtio-rng-pci,rng=rng0",
            "-net", netuser,
            "-net", "nic,macaddr=" \o Format(o.mac_address)>>
       \o (IF Truthy(o.pcap) THEN <<"-net", "dump,file=" \o o.pcap>> ELSE <<>>)
       \o (IF o.secondary_network
           THEN <<"-netdev", "socket,id=vlan1,mcast=230.0.0.1:1234,localaddr=127.0.0.1",
                  "-device", "e1000,netdev=vlan1,mac=" \o random_mac(draws)>>
           ELSE <<>>)
       \o (IF o.gui
           THEN <<"-usb", "-device", "usb-tablet", "-show-cursor", "-vga", "std">>
           ELSE <<"-nographic", "-monitor", "null">>)
       \o (IF o.kvm THEN <<"-enable-kvm", "-cpu", "host">> ELSE <<"-cpu", "Haswell">>)
       \o (IF Truthy(o.overlay) THEN <<o.overlay>> ELSE <<>>)
       \o (IF ~o.enable_u_boot
           THEN <<"-append", "root=/dev/vda rw highres=off console=ttyS0 ip=dhcp">>
           ELSE <<>>)

\* lines 215-224
img_command_line_swapped(o) ==
    <<"qemu-img", "create", "-o", "backing_file=" \o Format(o.overlay), "-f", "qcow2",
      o.image>>

img_command_line(o) ==
    <<"qemu-img", "create", "-o", "backing_file=" \o Format(o.image), "-f", "qcow2",
      o.overlay>>

(***************************************************************************)
(* Files, arguments and surroundings the specifications draw from          *)
(***************************************************************************)
RomFile == "/work/deploy/qemux86-64/u-boot-qemux86-64.rom"
KernelFile == "/work/deploy/qemux86-64/bzImage-qemux86-64.bin"
ImageOta == "/work/deploy/qemux86-64/core-image-minimal-qemux86-64.ota-ext4"
ImageExt4 == "/work/deploy/qemux86-64/core-image-minimal-qemux86-64.ext4"
OverlayFile == "/work/foo.cow"
SidecarRom == "/work/foo.cow.u-boot.rom"
SidecarImg == "/work/foo.cow.img"
DiskFile == "/work/disk.img"
IntelFiles == {"/work/deploy/intel-corei7-64/u-boot-qemux86-64.rom",
               "/work/deploy/intel-corei7-64/bzImage-qemux86-64.bin",
               "/work/deploy/intel-corei7-64/core-image-minimal-intel-corei7-64.wic"}
RpiFiles == {"/work/deploy/raspberrypi3/u-boot-qemux86-64.rom",
             "/work/deploy/raspberrypi3/bzImage-qemux86-64.bin",
             "/work/deploy/raspberrypi3/core-image-minimal-raspberrypi3.wic"}
QemuFiles == {RomFile, KernelFile, ImageOta, ImageExt4}
OverlayFiles == {OverlayFile, SidecarRom, SidecarImg}

\* a file system holding exactly the given files, each with its own content
Disk(files) == [p \in files |-> p]

PlainOptions == [mac |-> None, mem |-> None, kvm |-> None, no_gui |-> FALSE,
                 gdb |-> FALSE, pcap |-> None, secondary_network |-> FALSE,
                 host_forward |-> Absent]
RichOptions == [mac |-> "52:54:00:12:34:56", mem |-> "2G", kvm |-> "False",
                no_gui |-> TRUE, gdb |-> TRUE, pcap |-> "net.pcap",
                secondary_network |-> TRUE, host_forward |-> "tcp::8080-:80"]

Args(dry_run, overlay, uboot_enable, machine, dir, efi, bootloader, imagename, o) ==
    [dry_run |-> dry_run, overlay |-> overlay, uboot_enable |-> uboot_enable,
     machine |-> machine, dir |-> dir, efi |-> efi, bootloader |-> bootloader,
     imagename |-> imagename, mac |-> o.mac, mem |-> o.mem, kvm |-> o.kvm,
     no_gui |-> o.no_gui, gdb |-> o.gdb, pcap |-> o.pcap,
     secondary_network |-> o.secondary_network, host_forward |-> o.host_forward]

SerialWindow == SerialStart..(SerialStart + PortWindow - 1)
SshWindow == SshStart..(SshStart + PortWindow - 1)

NoRes == [called |-> FALSE,
          args |-> Args(FALSE, None, Absent, None, "deploy", FALSE, None,
                        "core-image-minimal", PlainOptions),
          err |-> None, line |-> 0, obj |-> NoObj, machine |-> None, base |-> None,
          copies |-> <<>>, printed |-> <<>>, after_first |-> FALSE]
NoOut == [call |-> "none", tokens |-> <<>>]
NoFirst == [set |-> FALSE, ok |-> FALSE, bios |-> None, image |-> None,
            rom |-> None, img |-> None]
NoProbe == [called |-> FALSE, start |-> SerialStart, port |-> -1, err |-> None,
            probed |-> <<>>, open |-> {}]

(***************************************************************************)
(* Actions                                                                 *)
(***************************************************************************)
\* the construction is the first one in U-Boot mode, not dry-run, against an
\* overlay whose overlay file and sidecars are all absent
StartsOverlay(args) ==
    /\ ~args.dry_run /\ ~args.efi /\ enable_u_boot_of(args) /\ Truthy(args.overlay)
    /\ ~exists(fs, args.overlay)
    /\ ~exists(fs, args.overlay \o ".u-boot.rom")
    /\ ~exists(fs, args.overlay \o ".img")

\* QemuCommand(args)
Construct(args, draws, kvm_ok) ==
    \E r \in {QemuCommand_init(args, [draws |-> draws, kvm_ok |-> kvm_ok,
                                      busy |-> busy], fs, EXTENSIONS)} :
       /\ fs' = r.fs
       /\ EXTENSIONS' = r.ext
       /\ busy' = busy \cup r.held
       /\ res' = [called |-> TRUE, args |-> args, err |-> r.err, line |-> r.line,
                  obj |-> r.obj, machine |-> r.machine, base |-> r.base,
                  copies |-> r.copies,
                  printed |-> r.printed, after_first |-> first.set]
       /\ first' = IF ~first.set /\ StartsOverlay(args)
                   THEN [set |-> TRUE, ok |-> r.err = None, bios |-> r.obj.bios,
                         image |-> r.obj.image,
                         rom |-> content(r.fs, args.overlay \o ".u-boot.rom"),
                         img |-> content(r.fs, args.overlay \o ".img")]
                   ELSE first
       /\ out' = NoOut
       /\ UNCHANGED probe

\* obj.command_line() on the latest object
CommandLine(draws) ==
    /\ res.called /\ res.err = None
    /\ out' = [call |-> "command_line", tokens |-> command_line(res.obj, draws)]
    /\ UNCHANGED <<fs, EXTENSIONS, res, first, busy, probe>>

\* obj.img_command_line() on the latest object
ImgCommandLine ==
    /\ res.called /\ res.err = None
    /\ out' = [call |-> "img_command_line", tokens |-> img_command_line(res.obj)]
    /\ UNCHANGED <<fs, EXTENSIONS, res, first, busy, probe>>

\* find_local_port(start) called on its own
FindLocalPort ==
    /\ ~probe.called
    /\ \E r \in {find_local_port(probe.start, busy)} :
          /\ probe' = [called |-> TRUE, start |-> probe.start, port |-> r.port,
                       err |-> r.err, probed |-> r.probed, open |-> r.open]
          /\ busy' = busy \cup r.held
    /\ UNCHANGED <<fs, EXTENSIONS, res, out, first>>

(***************************************************************************)
(* Spec: boot mode, machine and extension table, over a few build trees    *)
(***************************************************************************)
FullBuild == QemuFiles \cup IntelFiles \cup RpiFiles \cup {DiskFile}

BootDisks == {Disk({}), Disk(QemuFiles), Disk(FullBuild),
              Disk(FullBuild \cup OverlayFiles)}

\* every combination of the options, except that a construction with an overlay
\* and U-Boot enabled is a dry run here (SpecOverlay explores the copies)
BootArgs ==
    {a \in {Args(d, ov, ub, m, "deploy", efi, None, "core-image-minimal", o) :
               d \in BOOLEAN, ov \in {None, "foo.cow"}, ub \in {"Yes", "no"},
               m \in Machines \cup {None}, efi \in BOOLEAN,
               o \in {PlainOptions, RichOptions}} :
        a.overlay = None \/ a.dry_run \/ a.uboot_enable = "no"}

ZeroDraws == [i \in 1..(2 * MacOctets) |-> 1]

Init ==
    /\ fs \in BootDisks
    /\ EXTENSIONS = DefaultExtensions
    /\ res = NoRes
    /\ out = NoOut
    /\ first = NoFirst
    /\ busy = {}
    /\ probe = NoProbe

Next ==
    \/ \E args \in BootArgs : Construct(args, ZeroDraws, TRUE)
    \/ \E draws \in SameDraws : CommandLine(draws)
    \/ ImgCommandLine

Spec == Init /\ [][Next]_vars

(***************************************************************************)
(* SpecOverlay: one machine, every combination of its files on disk        *)
(***************************************************************************)
OverlayArgs ==
    {Args(d, ov, ub, "qemux86-64", "deploy", FALSE, None, img, PlainOptions) :
        d \in BOOLEAN, ov \in {None, "", "foo.cow"}, ub \in {Absent, "No"},
        img \in {"core-image-minimal", "disk.img"}}

InitOverlay ==
    /\ fs \in {Disk(files) : files \in SUBSET (QemuFiles \cup OverlayFiles \cup {DiskFile})}
    /\ EXTENSIONS = DefaultExtensions
    /\ res = NoRes
    /\ out = NoOut
    /\ first = NoFirst
    /\ busy \in {{}, SshWindow}
    /\ probe = NoProbe

NextOverlay ==
    \/ \E args \in OverlayArgs : Construct(args, ZeroDraws, TRUE)
    \/ CommandLine(ZeroDraws)
    \/ ImgCommandLine

SpecOverlay == InitOverlay /\ [][NextOverlay]_vars

(***************************************************************************)
(* SpecNet: network options, random MAC addresses and occupied ports       *)
(***************************************************************************)
NetOptions ==
    {[o EXCEPT !.mac = mac, !.secondary_network = sec] :
        o \in {PlainOptions, RichOptions},
        mac \in {None, "52:54:00:12:34:56", "ca:fe:00:00:00:00"},
        sec \in BOOLEAN}

NetArgs ==
    {Args(FALSE, None, Absent, "qemux86-64", "deploy", FALSE, None,
          "core-image-minimal", o) : o \in NetOptions}

InitNet ==
    /\ fs = Disk(QemuFiles)
    /\ EXTENSIONS = DefaultExtensions
    /\ res = NoRes
    /\ out = NoOut
    /\ first = NoFirst
    /\ busy \in {{}, {SerialStart, SshStart, SshStart + 1}, SshWindow}
    /\ probe = NoProbe

NextNet ==
    \/ \E args \in NetArgs, draws \in SameDraws, kvm_ok \in BOOLEAN :
          Construct(args, draws, kvm_ok)
    \/ \E draws \in RandomDraws : CommandLine(draws)
    \/ ImgCommandLine

SpecNet == InitNet /\ [][NextNet]_vars

(***************************************************************************)
(* SpecPort: find_local_port over every occupation of the probed window    *)
(***************************************************************************)
PortSlack == 1
StartPorts == {SerialStart, SshStart}
PortUniverse(start) == (start - PortSlack)..(start + PortWindow - 1 + PortSlack)

InitPort ==
    /\ fs = Disk({})
    /\ EXTENSIONS = DefaultExtensions
    /\ res = NoRes
    /\ out = NoOut
    /\ first = NoFirst
    /\ \E start \in StartPorts :
          /\ probe = [NoProbe EXCEPT !.start = start]
          /\ busy \in SUBSET PortUniverse(start)

NextPort == FindLocalPort

SpecPort == InitPort /\ [][NextPort]_vars

(***************************************************************************)
(* Properties                                                              *)
(***************************************************************************)
Tokens(seq) == {seq[i] : i \in 1..Len(seq)}
Occurrences(seq, t) == Cardinality({i \in 1..Len(seq) : seq[i] = t})

\* the options as the caller states them
UBootDisabled(args) == args.uboot_enable \in {"no", "No"}
OverlaySet(args) == args.overlay \notin {None, ""}
Constructed == res.called /\ res.err = None

ExpectedExtension(machine, args) ==
    IF machine = "qemux86-64"
    THEN (IF UBootDisabled(args) THEN "ext4" ELSE "ota-ext4")
    ELSE "wic"

\* C1: every construction whose image name is no existing path synthesizes
\* <dir>/<machine>/<imagename>-<machine>.<ext> with ext 'wic' for a machine
\* outside the table, the table's extension for a machine in it, and 'ext4'
\* for qemux86-64 exactly when this construction has U-Boot disabled.
C1_ExtensionOfThisConstruction ==
    (res.called /\ res.base # None /\ ~exists(fs, res.args.imagename))
        => res.base = "deploy/" \o res.machine \o "/core-image-minimal-" \o res.machine
                         \o "." \o ExpectedExtension(res.machine, res.args)

\* C2: a dry run on a disk that holds none of the files leaves the disk empty
\* and raises no missing-artifact error (ValueError "... does not exist").
C2_DryRunOnEmptyDisk ==
    (res.called /\ res.args.dry_run /\ DOMAIN fs = {})
        => ~(res.err = "ValueError" /\ res.line \in {89, 99, 117, 127})

\* C4: a construction with an overlay set and U-Boot disabled raises the
\* configuration error, having copied nothing and left the extension table
\* and the disk as they were; no object has an overlay and U-Boot disabled.
C4_OverlayNeedsUBoot ==
    [][(res'.called /\ OverlaySet(res'.args) /\ UBootDisabled(res'.args))
          => /\ res'.err = "EnvironmentError"
             /\ res'.copies = <<>>
             /\ EXTENSIONS' = EXTENSIONS
             /\ fs' = fs]_vars

C4_Witness ==
    /\ res.called /\ OverlaySet(res.args) /\ UBootDisabled(res.args)
    /\ res.args.efi /\ res.args.dry_run
    /\ res.err = "EnvironmentError"
    /\ EXTENSIONS["qemux86-64"] = "ota-ext4"

BootMode(args) ==
    IF args.efi THEN "efi" ELSE IF ~UBootDisabled(args) THEN "uboot" ELSE "direct-kernel"

\* C5: whatever the EFI and U-Boot flags, exactly one of bootloader path and
\* kernel path is set, and command_line() carries it: '-bios <bootloader>' in
\* EFI and U-Boot mode, '-kernel <kernel>' in direct-kernel mode.

C5_BootFlagCarriesSetPath ==
    (Constructed /\ out.call = "command_line")
        => /\ (res.obj.bios \in {None, Absent}) # (res.obj.kernel \in {None, Absent})
           /\ Occurrences(out.tokens, "-bios") + Occurrences(out.tokens, "-kernel") = 1
           /\ out.tokens[3] \notin {None, Absent}
           /\ IF BootMode(res.args) = "direct-kernel"
              THEN out.tokens[2] = "-kernel" /\ out.tokens[3] = res.obj.kernel
              ELSE out.tokens[2] = "-bios" /\ out.tokens[3] = res.obj.bios

\* C6: after a construction that is no dry run and returns, the ROM (U-Boot
\* mode) or kernel (direct-kernel mode) and the disk image it resolved exist.
C6_ResolvedFilesExist ==
    (Constructed /\ ~res.args.dry_run /\ ~res.args.efi)
        => /\ exists(fs, res.obj.image)
           /\ IF UBootDisabled(res.args) THEN exists(fs, res.obj.kernel)
              ELSE exists(fs, res.obj.bios)

\* C8: with an overlay, command_line() has no '-drive' and ends with the
\* overlay path; without one it has exactly one '-drive' clause
\* 'file=<image>,if=<ide|virtio>,format=raw,snapshot=on' and no positional
\* overlay argument.
C8_DriveOrOverlay ==
    (Constructed /\ out.call = "command_line")
        => LET t == out.tokens
           IN IF OverlaySet(res.args)
              THEN /\ "-drive" \notin Tokens(t)
                   /\ t[Len(t)] = res.args.overlay
              ELSE /\ Occurrences(t, "-drive") = 1
                   /\ t[4] = "-drive"
                   /\ t[5] = "file=" \o res.obj.image \o ",if="
                               \o (IF UBootDisabled(res.args) THEN "virtio" ELSE "ide")
                               \o ",format=raw,snapshot=on"
                   /\ \A i \in 1..Len(t) : t[i] \notin {None, "", "foo.cow"}
                                             \/ (i = 3 /\ t[2] = "-kernel")

C8_Witness ==
    /\ Constructed /\ out.call = "command_line"
    /\ OverlaySet(res.args) /\ res.args.secondary_network
    /\ out.tokens[Len(out.tokens)] = "foo.cow"
    /\ out.tokens[2] = "-bios"

OverlayRun(args) ==
    ~args.dry_run /\ ~args.efi /\ ~UBootDisabled(args) /\ args.overlay = "foo.cow"

\* C3: in U-Boot mode, not dry-run, against an overlay whose file and sidecars
\* are absent while the source ROM and base image are present, the first
\* construction copies both sidecars; every later such construction copies
\* nothing, leaves the sidecars as the first wrote them and resolves the same
\* bootloader and image paths.

C3_CopyOnceThenReuse ==
    /\ (/\ res.called /\ OverlayRun(res.args) /\ first.set /\ ~res.after_first
        /\ RomFile \in DOMAIN fs /\ res.base # None /\ exists(fs, res.base))
          => /\ res.copies = << <<RomFile, "foo.cow.u-boot.rom">>,
                                <<res.base, "foo.cow.img">> >>
             /\ content(fs, SidecarRom) = RomFile
             /\ content(fs, SidecarImg) = abspath(res.base)
             /\ res.err = None => /\ res.obj.bios = "foo.cow.u-boot.rom"
                                  /\ res.obj.image = "foo.cow.img"
    /\ (/\ res.called /\ OverlayRun(res.args) /\ res.after_first
        /\ first.rom # None /\ first.img # None)
          => /\ res.copies = <<>>
             /\ (res.err = None /\ first.ok) => /\ res.obj.bios = first.bios
                                                /\ res.obj.image = first.image
    /\ (first.rom # None /\ first.img # None)
          => /\ content(fs, SidecarRom) = first.rom
             /\ content(fs, SidecarImg) = first.img

C3_Witness ==
    /\ res.called /\ OverlayRun(res.args) /\ res.after_first /\ first.ok
    /\ res.err = None /\ res.copies = <<>>
    /\ res.obj.image = "foo.cow.img"
    /\ content(fs, SidecarImg) = DiskFile

\* C7: find_local_port(start) returns the lowest port of start..start+9 that
\* can be bound, raises exactly when none of the ten can, and leaves no probe
\* socket open and no port held.
C7_LowestFreePort ==
    probe.called
        => LET free == {p \in probe.start..(probe.start + 9) : p \notin busy}
           IN /\ (free = {}) <=> (probe.err # None)
              /\ free = {} => probe.err = "Exception"
              /\ free # {} => /\ probe.port \in free
                              /\ \A q \in free : probe.port <= q
              /\ probe.open = {}

C7_Witness ==
    /\ probe.called /\ probe.err = None
    /\ probe.port = probe.start + 9
    /\ Len(probe.probed) = 10
    /\ (probe.start + 10) \notin busy

\* C9: img_command_line() is qemu-img create -o backing_file=<image> -f qcow2
\* <overlay>, where <image> is the final image the construction validated
\* (the sidecar <overlay>.img when an overlay is active); the last token is
\* the overlay path.
C9_ImgCommandLine ==
    (Constructed /\ out.call = "img_command_line")
        => LET final == IF OverlaySet(res.args) THEN res.args.overlay \o ".img"
                        ELSE abspath(res.base)
           IN /\ out.tokens = <<"qemu-img", "create", "-o", "backing_file=" \o final,
                                "-f", "qcow2", res.args.overlay>>
              /\ ~res.args.dry_run => exists(fs, final)

C9_Witness ==
    /\ Constructed /\ out.call = "img_command_line"
    /\ res.args.overlay = "foo.cow" /\ ~res.args.dry_run
    /\ out.tokens[4] = "backing_file=foo.cow.img"
    /\ out.tokens[7] = "foo.cow"

\* C10: the MAC of the secondary e1000 device differs from the primary NIC's.
C10_SecondaryMacDiffers ==
    (Constructed /\ out.call = "command_line" /\ res.obj.secondary_network)
        => /\ ("nic,macaddr=" \o res.obj.mac_address) \in Tokens(out.tokens)
           /\ ("e1000,netdev=vlan1,mac=" \o res.obj.mac_address) \notin Tokens(out.tokens)

====
